---------------------------- MODULE Spec2Model ----------------------------
(***************************************************************************)
(* A model of the MCP JSON-RPC dispatcher of vishalk17/mcp-casdoor.        *)
(*                                                                         *)
(* The repository holds three builds of the same server:                   *)
(*   build 1  src/store-mcp-server/main.go                                 *)
(*   build 2  src/unnamed/part_000, lines 1-320                            *)
(*   build 3  src/unnamed/part_000, lines 322-578                          *)
(* A server instance runs one of them; `variant` records which.  The body *)
(* of an HTTP request to /mcp is decoded with encoding/json, dispatched by *)
(* handleRequest, and the returned struct is encoded onto the wire.  A     *)
(* handler touches the session flag at one point, under the lock, and      *)
(* writes its answer later: an exchange is either one step (Step) or is    *)
(* handled (Begin), kept in `inflight` while other exchanges run, and      *)
(* answered (Finish).  What is recorded of an answer is dropped when its   *)
(* handler returns (ExchangeOver), before the next handler runs.  SpecConc *)
(* has the same handlers statement by statement.  Both the Go value        *)
(* returned by the dispatcher (`response`)                                 *)
(* and what was written to the transport (`written`) are kept in the       *)
(* state, so that properties of the wire can be told apart from properties *)
(* of the Go structs (omitempty makes those differ).                       *)
(*                                                                         *)
(* Every record is written with its fields in the order in which their     *)
(* names first occur in this module.                                       *)
(***************************************************************************)
EXTENDS Integers, Sequences, FiniteSets, TLC

VARIABLES variant,        \* which build this server instance runs
          initialized,    \* MCPServer.initialized
          request,        \* the HTTP request answered last (NoRequest once
                          \* its handler has returned)
          response,       \* what handleRequest returned for it (Go struct)
          written,        \* what the HTTP handler wrote to the transport
          wasInitialized, \* history: MCPServer.initialized when the handler of
                          \* that request came to the flag
          nowInitialized, \* history: MCPServer.initialized when that handler
                          \* was through with the flag
          afterHandshake, \* history: some initialize had succeeded when that
                          \* handler was through with the flag
          handshakeDone,  \* history: some initialize has succeeded
          inflight,       \* the exchanges handled and not yet written
          initResults,    \* history: the results of all successful initialize
          listResults,    \* history: the results of all successful tools/list
          callResults,    \* history: the results of all successful calls of a
                          \* tool of the tool table
          pc,             \* concurrent handlers: the statement each is at
          reqOf,          \* concurrent handlers: the request each handles
          seen,           \* concurrent handlers: the local `initialized` of
                          \* the gate (build 1), isInitialized's value (build 2)
          respOf,         \* concurrent handlers: what each returned
          mu,             \* MCPServer.mu, the sync.RWMutex of the server
          initReturned,   \* history: some handler returned an initialize result
          afterInit       \* history: initReturned when the handler's gate
                          \* check started

vars == <<variant, initialized, request, response, written,
          wasInitialized, nowInitialized, afterHandshake, handshakeDone,
          inflight, initResults, listResults,
          callResults, pc, reqOf, seen, respOf, mu, initReturned,
          afterInit>>

\* what one exchange at a time is observed with
seqVars == <<request, response, written, wasInitialized, nowInitialized,
             afterHandshake, handshakeDone, inflight, initResults,
             listResults, callResults>>

\* the state of the handlers that run concurrently
concVars == <<pc, reqOf, seen, respOf, mu, initReturned, afterInit>>

Variants == {1, 2, 3}

(***************************************************************************)
(* Bounds of the inputs.                                                   *)
(***************************************************************************)
\* small integer identifiers are 0..MaxId
MaxId == 1

\* at most MaxInFlight exchanges are handled and not yet written
MaxInFlight == 1

(***************************************************************************)
(* JSON scalars as they appear in a body, and Go values they decode to.    *)
(* A number is the non-negative integer hi * 2^27 + lo, 0 <= lo < 2^27,    *)
(* so that integers beyond 2^53 (where float64 stops being exact) can be   *)
(* written down.                                                           *)
(***************************************************************************)
Base == 2^27

J(t, s, hi, lo) == [t |-> t, s |-> s, hi |-> hi, lo |-> lo, members |-> << >>]

Absent == J("absent", "", 0, 0)     \* the member is not in the object
Null   == J("null", "", 0, 0)       \* the member is the literal null
Str(s) == J("str", s, 0, 0)
Num(hi, lo) == J("num", "", hi, lo)
\* a JSON object: its members, <<key, value>> pairs in document order, a
\* key being the bytes of its UTF-8 encoding
ObjOf(members) == [J("obj", "", 0, 0) EXCEPT !.members = members]
Obj    == ObjOf(<< >>)               \* the JSON object {}

GoNil        == J("nil", "", 0, 0)  \* a nil interface{}
GoString(s)  == J("string", s, 0, 0)
GoFloat64(hi, lo) == J("float64", "", hi, lo)
GoMap        == J("map", "", 0, 0)  \* map[string]interface{}{}
\* a map[string]interface{} with entries: a function from its keys to the
\* Go values held under them
GoMapOf(entries) ==
    IF DOMAIN entries = {} THEN GoMap ELSE [GoMap EXCEPT !.members = entries]

(***************************************************************************)
(* float64(hi * 2^27 + lo): encoding/json decodes every JSON number that   *)
(* lands in an interface{} to a float64.  Integers up to 2^53 are exact;   *)
(* from 2^53 on the float64 values are 2 apart, from 2^54 on 4 apart, and  *)
(* so on, and an integer in between is rounded to the nearest of them, a   *)
(* tie to the one whose significand is even.                               *)
(***************************************************************************)
\* the distance between neighbouring float64 values at hi * 2^27
Ulp(hi) ==
    CASE hi < 2^26 -> 1
      [] hi < 2^27 -> 2
      [] hi < 2^28 -> 4
      [] hi < 2^29 -> 8
      [] hi < 2^30 -> 16
      [] OTHER     -> 32

Float64(hi, lo) ==
    LET ulp  == Ulp(hi)
        r    == lo % ulp
        down == lo - r
        up   == down + ulp
        q    == IF 2 * r < ulp THEN down
                ELSE IF 2 * r > ulp THEN up
                ELSE IF (down \div ulp) % 2 = 0 THEN down ELSE up
    IN  IF q = Base THEN GoFloat64(hi + 1, 0) ELSE GoFloat64(hi, q)

(***************************************************************************)
(* The key of a member of an object is the sequence of the bytes of its    *)
(* UTF-8 encoding, as it stands in the Go string the decoder makes of it   *)
(* (<<110, 97, 109, 101>> is "name").  encoding/json compares keys byte by *)
(* byte when it sorts the keys of a map, and without regard to case when   *)
(* it matches a key against the name of a struct field.                    *)
(***************************************************************************)
\* the key with every character that case-folds to an ASCII letter replaced
\* by the capital of that letter: the small ASCII letters, U+017F (long s,
\* bytes 197 191) and U+212A (Kelvin sign, bytes 226 132 170)
RECURSIVE FoldToASCII(_)
FoldToASCII(key) ==
    IF key = << >> THEN << >>
    ELSE IF Len(key) >= 2 /\ key[1] = 197 /\ key[2] = 191
    THEN <<83>> \o FoldToASCII(SubSeq(key, 3, Len(key)))
    ELSE IF Len(key) >= 3 /\ key[1] = 226 /\ key[2] = 132 /\ key[3] = 170
    THEN <<75>> \o FoldToASCII(SubSeq(key, 4, Len(key)))
    ELSE <<IF key[1] \in 97..122 THEN key[1] - 32 ELSE key[1]>>
             \o FoldToASCII(Tail(key))

\* the key of a member matches the (ASCII) name of a struct field
EqualFold(key, name) == FoldToASCII(key) = FoldToASCII(name)

\* strings.Compare(a, b) < 0
RECURSIVE Less(_, _)
Less(a, b) ==
    IF b = << >> THEN FALSE
    ELSE IF a = << >> THEN TRUE
    ELSE IF a[1] # b[1] THEN a[1] < b[1]
    ELSE Less(Tail(a), Tail(b))

(***************************************************************************)
(* A request body.  t = "malformed": bytes that are not JSON (truncated,   *)
(* empty, garbage); "null", "array": well-formed JSON of that kind;        *)
(* "object": a JSON object with the four members of the envelope, each a   *)
(* JSON scalar or Absent.  params is a Params value (below).               *)
(***************************************************************************)
Body(t, jsonrpc, id, method, params) ==
    [t |-> t, jsonrpc |-> jsonrpc, id |-> id, method |-> method, params |-> params]

(***************************************************************************)
(* A params payload: absent, null, an array, or an object whose members of *)
(* interest are the fields of CallToolParams and InitializeParams; order   *)
(* is the order in which the members stand in the document.                *)
(***************************************************************************)
MemberOrder == <<"name", "arguments", "protocolVersion", "capabilities", "clientInfo">>

Params(t, name, arguments, protocolVersion, capabilities, clientInfo) ==
    [t |-> t, name |-> name, arguments |-> arguments,
     protocolVersion |-> protocolVersion, capabilities |-> capabilities,
     clientInfo |-> clientInfo, order |-> MemberOrder]

\* the params object with its members written in another order
Reordered(params, order) == [params EXCEPT !.order = order]

NoParams    == Params("absent", Absent, Absent, Absent, Absent, Absent)
NullParams  == Params("null", Absent, Absent, Absent, Absent, Absent)
ArrayParams == Params("array", Absent, Absent, Absent, Absent, Absent)
ObjParams(name, arguments, protocolVersion, capabilities, clientInfo) ==
    Params("object", name, arguments, protocolVersion, capabilities, clientInfo)

\* the value of a Go string field after decoding member m into it
StringField(m) == IF m.t = "str" THEN m.s ELSE ""
\* decoding member m into a Go string field fails
StringFieldErr(m) == m.t \notin {"absent", "null", "str"}
\* decoding member m into a Go struct or map field fails
ObjectFieldErr(m) == m.t \notin {"absent", "null", "obj"}

\* the ID interface{} member of JSONRPCRequest after decoding member m: a
\* string, a float64, a map[string]interface{} of the members of an object
\* (of members with the same key the last one stays), or nil
RECURSIVE DecodeID(_)
DecodeID(m) ==
    CASE m.t = "str" -> GoString(m.s)
      [] m.t = "num" -> Float64(m.hi, m.lo)
      [] m.t = "obj" ->
           GoMapOf([k \in {m.members[i][1] : i \in DOMAIN m.members} |->
               LET last == CHOOSE i \in DOMAIN m.members :
                               /\ m.members[i][1] = k
                               /\ \A j \in DOMAIN m.members :
                                      m.members[j][1] = k => j <= i
               IN  DecodeID(m.members[last][2])])
      [] OTHER       -> GoNil

JSONRPCRequest(jsonrpc, id, method, params) ==
    [Params |-> params, JsonRPC |-> jsonrpc, ID |-> id, Method |-> method]

\* Decode as it would be if it refused every jsonrpc member other than "2.0"
Decode_strictVersion(body) ==
    CASE body.t = "malformed" ->
           [req |-> JSONRPCRequest("", GoNil, "", NoParams), err |-> "syntax"]
      [] body.t = "array" ->
           [req |-> JSONRPCRequest("", GoNil, "", NoParams), err |-> "type"]
      [] body.t = "null" ->
           [req |-> JSONRPCRequest("", GoNil, "", NoParams), err |-> ""]
      [] OTHER ->
           [req |-> JSONRPCRequest(StringField(body.jsonrpc), DecodeID(body.id),
                                   StringField(body.method), body.params),
            err |-> IF body.jsonrpc # Str("2.0") \/ StringFieldErr(body.method)
                    THEN "type" ELSE ""]

\* json.NewDecoder(r.Body).Decode(&req): err is "" on success
Decode(body) ==
    CASE body.t = "malformed" ->
           [req |-> JSONRPCRequest("", GoNil, "", NoParams), err |-> "syntax"]
      [] body.t = "array" ->
           [req |-> JSONRPCRequest("", GoNil, "", NoParams), err |-> "type"]
      [] body.t = "null" ->
           [req |-> JSONRPCRequest("", GoNil, "", NoParams), err |-> ""]
      [] OTHER ->
           [req |-> JSONRPCRequest(StringField(body.jsonrpc), DecodeID(body.id),
                                   StringField(body.method), body.params),
            err |-> IF StringFieldErr(body.jsonrpc) \/ StringFieldErr(body.method)
                    THEN "type" ELSE ""]

\* the name encoding/json gives the kind of JSON value m in its errors
JSONKind(m) ==
    CASE m.t = "num" -> "number"
      [] m.t = "str" -> "string"
      [] OTHER       -> "object"

\* (*json.UnmarshalTypeError).Error()
UnmarshalTypeError(value, target) ==
    "json: cannot unmarshal " \o value \o " into Go " \o target

\* decodeState.saveError: of the errors met while the document is read,
\* the first is the one reported ("" when there is none)
FirstError(errs) ==
    IF \A i \in DOMAIN errs : errs[i] = "" THEN ""
    ELSE errs[CHOOSE i \in DOMAIN errs :
                  errs[i] # "" /\ \A j \in 1..(i - 1) : errs[j] = ""]

\* the json names of the fields of ClientInfo and of ClientCapabilities,
\* each with its bytes
ClientInfoFields ==
    { <<"name", <<110, 97, 109, 101>> >>,
      <<"version", <<118, 101, 114, 115, 105, 111, 110>> >> }

ClientCapabilitiesFields ==
    { <<"experimental",
        <<101, 120, 112, 101, 114, 105, 109, 101, 110, 116, 97, 108>> >>,
      <<"sampling", <<115, 97, 109, 112, 108, 105, 110, 103>> >> }

\* the struct field a member of key `key` is decoded into: the one of
\* `fields` whose name is the key or, failing that, matches it without
\* regard to case; "" when there is none
FieldOf(key, fields) ==
    IF \E f \in fields : f[2] = key
    THEN (CHOOSE f \in fields : f[2] = key)[1]
    ELSE IF \E f \in fields : EqualFold(key, f[2])
    THEN (CHOOSE f \in fields : EqualFold(key, f[2]))[1]
    ELSE ""

\* decoding member key, of value v, of the clientInfo object into ClientInfo
ClientInfoMemberErr(key, v) ==
    LET field == FieldOf(key, ClientInfoFields)
    IN  IF field # "" /\ StringFieldErr(v)
        THEN UnmarshalTypeError(JSONKind(v),
                 "struct field ClientInfo.clientInfo." \o field \o " of type string")
        ELSE ""

\* decoding member key, of value v, of the capabilities object into
\* ClientCapabilities
ClientCapabilitiesMemberErr(key, v) ==
    LET field == FieldOf(key, ClientCapabilitiesFields)
    IN  IF field # "" /\ ObjectFieldErr(v)
        THEN UnmarshalTypeError(JSONKind(v),
                 "struct field ClientCapabilities.capabilities." \o field
                     \o " of type map[string]interface {}")
        ELSE ""

\* decoding member key of the params object into InitializeParams
InitializeParamsMemberErr(params, key) ==
    LET v == params[key]
    IN  CASE key = "protocolVersion" ->
               IF StringFieldErr(v)
               THEN UnmarshalTypeError(JSONKind(v),
                        "struct field InitializeParams.protocolVersion of type string")
               ELSE ""
          [] key = "capabilities" ->
               IF ObjectFieldErr(v)
               THEN UnmarshalTypeError(JSONKind(v),
                        "struct field InitializeParams.capabilities of type main.ClientCapabilities")
               ELSE FirstError([i \in DOMAIN v.members |->
                        ClientCapabilitiesMemberErr(v.members[i][1], v.members[i][2])])
          [] key = "clientInfo" ->
               IF ObjectFieldErr(v)
               THEN UnmarshalTypeError(JSONKind(v),
                        "struct field InitializeParams.clientInfo of type main.ClientInfo")
               ELSE FirstError([i \in DOMAIN v.members |->
                        ClientInfoMemberErr(v.members[i][1], v.members[i][2])])
          [] OTHER -> ""

\* json.Unmarshal(params, &initParams): err is "" on success
UnmarshalInitializeParams(params) ==
    CASE params.t = "absent" -> [err |-> "unexpected end of JSON input",
                                 ProtocolVersion |-> ""]
      [] params.t = "null"   -> [err |-> "", ProtocolVersion |-> ""]
      [] params.t = "object" ->
           [err |-> FirstError([i \in DOMAIN params.order |->
                        InitializeParamsMemberErr(params, params.order[i])]),
            ProtocolVersion |-> StringField(params.protocolVersion)]
      [] OTHER -> [err |-> UnmarshalTypeError(params.t,
                               "value of type main.InitializeParams"),
                   ProtocolVersion |-> ""]

\* decoding member key of the params object into CallToolParams
CallToolParamsMemberErr(params, key) ==
    LET v == params[key]
    IN  CASE key = "name" ->
               IF StringFieldErr(v)
               THEN UnmarshalTypeError(JSONKind(v),
                        "struct field CallToolParams.name of type string")
               ELSE ""
          [] key = "arguments" ->
               IF ObjectFieldErr(v)
               THEN UnmarshalTypeError(JSONKind(v),
                        "struct field CallToolParams.arguments of type map[string]interface {}")
               ELSE ""
          [] OTHER -> ""

\* json.Unmarshal(params, &callParams): err is "" on success
UnmarshalCallToolParams(params) ==
    CASE params.t = "absent" -> [err |-> "unexpected end of JSON input", Name |-> ""]
      [] params.t = "null"   -> [err |-> "", Name |-> ""]
      [] params.t = "object" ->
           [err |-> FirstError([i \in DOMAIN params.order |->
                        CallToolParamsMemberErr(params, params.order[i])]),
            Name |-> StringField(params.name)]
      [] OTHER -> [err |-> UnmarshalTypeError(params.t,
                               "value of type main.CallToolParams"),
                   Name |-> ""]

(***************************************************************************)
(* Go structs of a response.                                               *)
(***************************************************************************)
NilResult == [ty |-> "nil"]
NilError  == [ty |-> "nil"]
EmptyMap  == [ty |-> "map[string]string"]       \* map[string]string{}

RPCError(code, message, data) ==
    [ty |-> "RPCError", Code |-> code, Message |-> message, Data |-> data]

JSONRPCResponse(jsonrpc, id, result, error) ==
    [JsonRPC |-> jsonrpc, ID |-> id, Result |-> result, Error |-> error]

\* JSONRPCResponse{}
ZeroResponse == JSONRPCResponse("", GoNil, NilResult, NilError)

(***************************************************************************)
(* json.NewEncoder(w).Encode(response).  ID, Result, Error and Data carry  *)
(* omitempty: a nil interface or nil pointer is left out of the object;    *)
(* an omitempty bool is left out when false.  JsonRPC is always written.   *)
(***************************************************************************)
\* strconv.AppendFloat(b, f, 'f', -1, 64) of the float64 hi * 2^27 + lo: the
\* decimal of the fewest digits that float64 is the nearest float64 of,
\* and of several such the one nearest to it.  Every integer below 2^53
\* stands for itself.  From there on the integers within half the distance
\* to the neighbouring float64 on either side are candidates (the ends
\* only when the significand is even); between the candidates lies at most
\* one multiple of 100, which has the fewest digits, then come the
\* multiples of 10.
AppendFloat(hi, lo) ==
    LET ulp   == Ulp(hi)
        \* the distance to the float64 below: halved at a power of two
        below == IF lo = 0 /\ hi \in {2^26, 2^27, 2^28, 2^29, 2^30}
                 THEN ulp \div 2 ELSE ulp
        even  == (lo \div ulp) % 2 = 0
        Near(d) == LET gap == IF d < 0 THEN below ELSE ulp
                       dist == IF d < 0 THEN 0 - d ELSE d
                   IN  2 * dist < gap \/ (2 * dist = gap /\ even)
        last2 == ((hi % 100) * (Base % 100) + lo) % 100
        Zeros(d) == LET m == (last2 + d + 100) % 100
                    IN  IF m = 0 THEN 2 ELSE IF m % 10 = 0 THEN 1 ELSE 0
        Dist(d) == IF d < 0 THEN 0 - d ELSE d
        cands == {d \in (0 - ulp)..ulp : Near(d)}
        best  == CHOOSE d \in cands : \A e \in cands \ {d} :
                     \/ Zeros(d) > Zeros(e)
                     \/ Zeros(d) = Zeros(e) /\ Dist(d) < Dist(e)
        q     == lo + best
    IN  IF ulp = 1 THEN Num(hi, lo)
        ELSE IF q < 0 THEN Num(hi - 1, q + Base)
        ELSE IF q >= Base THEN Num(hi + 1, q - Base)
        ELSE Num(hi, q)

\* the keys of a map in the order encoding/json writes them
RECURSIVE SortedKeys(_)
SortedKeys(keys) ==
    IF keys = {} THEN << >>
    ELSE LET least == CHOOSE k \in keys : \A j \in keys : ~Less(j, k)
         IN  <<least>> \o SortedKeys(keys \ {least})

\* an interface{} value as encoding/json writes it inside a map, and the
\* members written for the keys `keys` of the map v
RECURSIVE EncodeInterface(_), EncodeEntries(_, _)
EncodeInterface(v) ==
    CASE v.t = "string"  -> Str(v.s)
      [] v.t = "float64" -> AppendFloat(v.hi, v.lo)
      [] v.t = "map"     -> ObjOf(EncodeEntries(v, SortedKeys(DOMAIN v.members)))
      [] OTHER           -> Null

EncodeEntries(v, keys) ==
    IF keys = << >> THEN << >>
    ELSE << <<Head(keys), EncodeInterface(v.members[Head(keys)])>> >>
             \o EncodeEntries(v, Tail(keys))

\* an interface{} field with omitempty: left out when nil
EncodeID(v) == IF v.t = "nil" THEN Absent ELSE EncodeInterface(v)

EncodeOmitEmptyBool(b) == IF b THEN "true" ELSE "omitted"

EncodeResult(r) ==
    CASE r.ty = "nil" -> [ty |-> "absent"]
      [] r.ty = "map[string]string" -> [members |-> {}, ty |-> "object"]
      [] r.ty = "InitializeResult" ->
           [protocolVersion |-> r.ProtocolVersion,
            capabilities |-> [tools |->
                [listChanged |-> EncodeOmitEmptyBool(r.Capabilities.Tools.ListChanged)]],
            ty |-> "InitializeResult",
            serverInfo |-> [name |-> r.ServerInfo.Name, version |-> r.ServerInfo.Version]]
      [] r.ty = "ToolsListResult" ->
           [ty |-> "ToolsListResult",
            tools |-> [i \in DOMAIN r.Tools |->
                [name |-> r.Tools[i].Name, description |-> r.Tools[i].Description,
                 inputSchema |-> [type |-> r.Tools[i].InputSchema.Type]]]]
      [] OTHER ->
           [ty |-> "CallToolResult",
            content |-> [i \in DOMAIN r.Content |->
                [type |-> r.Content[i].Type, text |-> r.Content[i].Text]],
            isError |-> IF "IsError" \in DOMAIN r
                        THEN EncodeOmitEmptyBool(r.IsError) ELSE "omitted"]

EncodeError(e) ==
    IF e.ty = "nil" THEN [ty |-> "absent"]
    ELSE [ty |-> "error", code |-> e.Code, message |-> e.Message,
          data |-> EncodeID(e.Data)]

Encode(resp) ==
    [jsonrpc |-> resp.JsonRPC, id |-> EncodeID(resp.ID),
     result |-> EncodeResult(resp.Result), error |-> EncodeError(resp.Error),
     kind |-> "json"]


(***************************************************************************)
(* The error codes of the dispatcher.                                      *)
(***************************************************************************)
ParseError     == -32700
MethodNotFound == -32601
InvalidParams  == -32602
NotInitialized == -32002

\* what a handler hands back: the session flag after it, and its response
Handled(init, resp) == [initialized |-> init, resp |-> resp]

(***************************************************************************)
(* Build 1: src/store-mcp-server/main.go                                   *)
(***************************************************************************)
\* sendError as it would be if it filled in a result next to the error
sendError_alsoResult(id, code, message, data) ==
    JSONRPCResponse("2.0", id, EmptyMap, RPCError(code, message, data))

sendError(id, code, message, data) ==
    JSONRPCResponse("2.0", id, NilResult, RPCError(code, message, data))

\* the result as it would be if the server answered with the version the
\* client asked for
InitializeResult_negotiated(initParams) ==
    [ProtocolVersion |-> initParams.ProtocolVersion,
     ty |-> "InitializeResult",
     Capabilities |-> [Tools |-> [ListChanged |-> FALSE]],
     ServerInfo |-> [Name |-> "indian-store-mcp-server", Version |-> "1.0.0"]]

\* the result handleInitialize builds; initParams is what the client sent
InitializeResult(initParams) ==
    [ProtocolVersion |-> "2024-11-05",
     ty |-> "InitializeResult",
     Capabilities |-> [Tools |-> [ListChanged |-> FALSE]],
     ServerInfo |-> [Name |-> "indian-store-mcp-server", Version |-> "1.0.0"]]

\* handleInitialize as it would be if a failed initialize cleared the flag
handleInitialize_resetOnError(init, id, params) ==
    LET initParams == UnmarshalInitializeParams(params)
    IN  IF initParams.err # ""
        THEN Handled(FALSE, sendError(id, InvalidParams, "Invalid params",
                                      GoString(initParams.err)))
        ELSE Handled(TRUE, JSONRPCResponse("2.0", id, InitializeResult(initParams),
                                           NilError))

\* handleInitialize as it would be if the flag were set before the params
\* are parsed
handleInitialize_setOnError(init, id, params) ==
    LET initParams == UnmarshalInitializeParams(params)
    IN  IF initParams.err # ""
        THEN Handled(TRUE, sendError(id, InvalidParams, "Invalid params",
                                     GoString(initParams.err)))
        ELSE Handled(TRUE, JSONRPCResponse("2.0", id, InitializeResult(initParams),
                                           NilError))

handleInitialize(init, id, params) ==
    LET initParams == UnmarshalInitializeParams(params)
    IN  IF initParams.err # ""
        THEN Handled(init, sendError(id, InvalidParams, "Invalid params",
                                     GoString(initParams.err)))
        ELSE Handled(TRUE, JSONRPCResponse("2.0", id, InitializeResult(initParams),
                                           NilError))

\* handleToolsList as it would be if the tool table were empty
handleToolsList_noTools(id) ==
    JSONRPCResponse("2.0", id, [ty |-> "ToolsListResult", Tools |-> << >>],
                    NilError)

handleToolsList(id) ==
    JSONRPCResponse("2.0", id,
        [ty |-> "ToolsListResult",
         Tools |-> << [Name |-> "list_indian_stores",
                       Description |-> "List popular Indian online stores with their services",
                       InputSchema |-> [Type |-> "object", Properties |-> {}]] >>],
        NilError)

\* handleCallTool as it would be if the text depended on the arguments
handleCallTool_usesArguments(id, params) ==
    LET callParams == UnmarshalCallToolParams(params)
    IN  IF callParams.err # ""
        THEN sendError(id, InvalidParams, "Invalid params", GoString(callParams.err))
        ELSE IF callParams.Name = "list_indian_stores"
        THEN JSONRPCResponse("2.0", id,
                 [ty |-> "CallToolResult",
                  Content |-> << [Type |-> "text",
                                  Text |-> IF params.arguments = Obj
                                           THEN "1. Flipkart"
                                           ELSE "no stores"] >>,
                  IsError |-> FALSE],
                 NilError)
        ELSE sendError(id, MethodNotFound, "Unknown tool", GoString(callParams.Name))

handleCallTool(id, params) ==
    LET callParams == UnmarshalCallToolParams(params)
    IN  IF callParams.err # ""
        THEN sendError(id, InvalidParams, "Invalid params", GoString(callParams.err))
        ELSE IF callParams.Name = "list_indian_stores"
        THEN JSONRPCResponse("2.0", id,
                 [ty |-> "CallToolResult",
                  Content |-> << [Type |-> "text",
                                  Text |-> "1. Flipkart - E-commerce platform offering electronics, fashion, home essentials\n2. Amazon India - Global e-commerce platform with wide product range\n3. Reliance Digital - Electronics and appliances retailer\n4. Myntra - Fashion and lifestyle e-commerce platform\n5. Snapdeal - E-commerce platform with various product categories\n6. Tata CLiQ - Digital commerce platform by Tata Group"] >>,
                  IsError |-> FALSE],
                 NilError)
        ELSE sendError(id, MethodNotFound, "Unknown tool", GoString(callParams.Name))

\* the ping case as it would be if the Result were left out
PingResponse_noResult(id) == JSONRPCResponse("2.0", id, NilResult, NilError)

\* the ping case of handleRequest
PingResponse(id) == JSONRPCResponse("2.0", id, EmptyMap, NilError)

handleRequest(init, req) ==
    CASE req.Method = "initialize" -> handleInitialize(init, req.ID, req.Params)
      [] req.Method = "notifications/initialized" -> Handled(init, ZeroResponse)
      [] req.Method = "tools/list" ->
           IF ~init
           THEN Handled(init, sendError(req.ID, NotInitialized,
                                        "Server not initialized", GoNil))
           ELSE Handled(init, handleToolsList(req.ID))
      [] req.Method = "tools/call" ->
           IF ~init
           THEN Handled(init, sendError(req.ID, NotInitialized,
                                        "Server not initialized", GoNil))
           ELSE Handled(init, handleCallTool(req.ID, req.Params))
      [] req.Method = "ping" -> Handled(init, PingResponse(req.ID))
      [] OTHER -> Handled(init, sendError(req.ID, MethodNotFound, "Method not found",
                                          GoString(req.Method)))

\* what one HTTP exchange leaves behind
Served(init, resp, status, body) ==
    [initialized |-> init, response |-> resp,
     written |-> [body |-> body, status |-> status]]

Text(s) == [text |-> s, kind |-> "text"]

\* handleMCPRequest as it would be if a request without an id were treated as
\* a notification and nothing were written for it
handleMCPRequest_suppressNoId(init, r) ==
    IF r.httpMethod = "OPTIONS" THEN Served(init, << >>, 200, << >>)
    ELSE IF r.httpMethod # "POST"
    THEN Served(init, << >>, 405, << Text("Only POST method is allowed") >>)
    ELSE LET d == Decode(r.body)
         IN  IF d.err # ""
             THEN Served(init, << >>, 200,
                         << Encode(JSONRPCResponse("2.0", GoNil, NilResult,
                                RPCError(ParseError, "Parse error: Invalid JSON", GoNil))) >>)
             ELSE LET h == handleRequest(init, d.req)
                  IN  IF d.req.ID = GoNil
                      THEN Served(h.initialized, << h.resp >>, 200, << >>)
                      ELSE Served(h.initialized, << h.resp >>, 200, << Encode(h.resp) >>)

handleMCPRequest(init, r) ==
    IF r.httpMethod = "OPTIONS" THEN Served(init, << >>, 200, << >>)
    ELSE IF r.httpMethod # "POST"
    THEN Served(init, << >>, 405, << Text("Only POST method is allowed") >>)
    ELSE LET d == Decode(r.body)
         IN  IF d.err # ""
             THEN Served(init, << >>, 200,
                         << Encode(JSONRPCResponse("2.0", GoNil, NilResult,
                                RPCError(ParseError, "Parse error: Invalid JSON", GoNil))) >>)
             ELSE LET h == handleRequest(init, d.req)
                  IN  Served(h.initialized, << h.resp >>, 200, << Encode(h.resp) >>)

(***************************************************************************)
(* Build 2: src/unnamed/part_000, lines 1-320                              *)
(***************************************************************************)
sendError_v2(id, code, message, data) ==
    JSONRPCResponse("2.0", id, NilResult, RPCError(code, message, data))

handleInitialize_v2(init, id, params) ==
    LET initParams == UnmarshalInitializeParams(params)
    IN  IF initParams.err # ""
        THEN Handled(init, sendError_v2(id, InvalidParams, "Invalid params",
                                        GoString(initParams.err)))
        ELSE Handled(TRUE, JSONRPCResponse("2.0", id,
                 [ProtocolVersion |-> "2024-11-05",
                  ty |-> "InitializeResult",
                  Capabilities |-> [Tools |-> [ListChanged |-> FALSE]],
                  ServerInfo |-> [Name |-> "indian-store-mcp-server",
                                  Version |-> "1.0.0"]],
                 NilError))

handleToolsList_v2(id) ==
    JSONRPCResponse("2.0", id,
        [ty |-> "ToolsListResult",
         Tools |-> << [Name |-> "list_indian_stores",
                       Description |-> "List popular Indian online stores",
                       InputSchema |-> [Type |-> "object", Properties |-> {}]] >>],
        NilError)

\* params is not looked at
handleCallTool_v2(id, params) ==
    JSONRPCResponse("2.0", id,
        [ty |-> "CallToolResult",
         Content |-> << [Type |-> "text",
                         Text |-> "Flipkart, Amazon India, Reliance Digital, Myntra, Snapdeal, Tata CLiQ"] >>,
         IsError |-> FALSE],
        NilError)

isInitialized_v2(init) == init

handleRequest_v2(init, req) ==
    CASE req.Method = "initialize" -> handleInitialize_v2(init, req.ID, req.Params)
      [] req.Method = "notifications/initialized" -> Handled(init, ZeroResponse)
      [] req.Method = "tools/list" ->
           IF ~isInitialized_v2(init)
           THEN Handled(init, sendError_v2(req.ID, NotInitialized,
                                           "Server not initialized", GoNil))
           ELSE Handled(init, handleToolsList_v2(req.ID))
      [] req.Method = "tools/call" ->
           IF ~isInitialized_v2(init)
           THEN Handled(init, sendError_v2(req.ID, NotInitialized,
                                           "Server not initialized", GoNil))
           ELSE Handled(init, handleCallTool_v2(req.ID, req.Params))
      [] req.Method = "ping" ->
           Handled(init, JSONRPCResponse("2.0", req.ID, EmptyMap, NilError))
      [] OTHER -> Handled(init, sendError_v2(req.ID, MethodNotFound, "Method not found",
                                             GoString(req.Method)))

handleMCPRequest_v2(init, r) ==
    IF r.httpMethod = "OPTIONS" THEN Served(init, << >>, 200, << >>)
    ELSE IF r.httpMethod # "POST"
    THEN Served(init, << >>, 405, << Text("Only POST allowed") >>)
    ELSE LET d == Decode(r.body)
         IN  IF d.err # ""
             THEN Served(init, << >>, 200,
                         << Encode(JSONRPCResponse("2.0", GoNil, NilResult,
                                RPCError(ParseError, "Parse error", GoNil))) >>)
             ELSE LET h == handleRequest_v2(init, d.req)
                  IN  Served(h.initialized, << h.resp >>, 200, << Encode(h.resp) >>)

(***************************************************************************)
(* Build 3: src/unnamed/part_000, lines 322-578                            *)
(***************************************************************************)
\* this build's sendError takes no data
sendError_v3(id, code, msg) ==
    JSONRPCResponse("2.0", id, NilResult, RPCError(code, msg, GoNil))

\* no case for notifications/initialized, no gate, params never parsed
handleRequest_v3(init, req) ==
    CASE req.Method = "initialize" ->
           Handled(TRUE, JSONRPCResponse("2.0", req.ID,
               [ProtocolVersion |-> "2024-11-05",
                ty |-> "InitializeResult",
                Capabilities |-> [Tools |-> [ListChanged |-> FALSE]],
                ServerInfo |-> [Name |-> "store-mcp-server", Version |-> "0.002"]],
               NilError))
      [] req.Method = "tools/list" ->
           Handled(init, JSONRPCResponse("2.0", req.ID,
               [ty |-> "ToolsListResult",
                Tools |-> << [Name |-> "list_indian_stores",
                              Description |-> "List popular Indian online stores",
                              InputSchema |-> [Type |-> "object"]] >>],
               NilError))
      [] req.Method = "tools/call" ->
           Handled(init, JSONRPCResponse("2.0", req.ID,
               [ty |-> "CallToolResult",
                Content |-> << [Type |-> "text",
                                Text |-> "Flipkart, Amazon India, Reliance Digital, Myntra, Snapdeal, Tata CLiQ"] >>],
               NilError))
      [] req.Method = "ping" ->
           Handled(init, JSONRPCResponse("2.0", req.ID, EmptyMap, NilError))
      [] OTHER -> Handled(init, sendError_v3(req.ID, MethodNotFound, "Method not found"))

\* no OPTIONS case: a preflight is answered like any other non-POST
mcpHandler_v3(init, r) ==
    IF r.httpMethod # "POST"
    THEN Served(init, << >>, 405, << Text("POST only") >>)
    ELSE LET d == Decode(r.body)
         IN  IF d.err # ""
             THEN Served(init, << >>, 200,
                         << Encode(JSONRPCResponse("2.0", GoNil, NilResult,
                                RPCError(ParseError, "Parse error", GoNil))) >>)
             ELSE LET h == handleRequest_v3(init, d.req)
                  IN  Served(h.initialized, << h.resp >>, 200, << Encode(h.resp) >>)


(***************************************************************************)
(* The requests a client may send.                                         *)
(***************************************************************************)
\* 2^53 + 1, the first integer a float64 cannot hold
BigId == Num(2^26, 1)

\* the object {"\u00e9b":"b","\u00fca":1}, its keys in UTF-8
ObjId == ObjOf(<< << <<195, 169, 98>>, Str("b") >>,
                  << <<195, 188, 97>>, Num(0, 1) >> >>)

Ids == {Absent, Null, Str("a"), BigId, ObjId} \cup {Num(0, n) : n \in 0..MaxId}

JsonRpcs == {Str("2.0"), Absent, Null, Str("1.0")}

\* the jsonrpc and id members of the request objects: every id under
\* "2.0", and a present and an absent id under the other jsonrpc values
Envelopes ==
    { <<Str("2.0"), id>> : id \in Ids }
    \cup { <<j, id>> : j \in JsonRpcs \ {Str("2.0")}, id \in {Absent, Num(0, 0)} }

\* the envelopes that every params payload is sent under; the other
\* envelopes go with the payloads of ShapeParams
PlainEnvelopes == { <<Str("2.0"), Num(0, 1)>>, <<Str("2.0"), Absent>> }

InitParamsSet ==
    { ObjParams(Absent, Absent, Str("2024-11-05"), Obj, Obj),
      ObjParams(Absent, Absent, Str("2025-03-26"), Obj, Obj),
      ObjParams(Absent, Absent, Num(0, 1), Obj, Obj),
      ObjParams(Absent, Absent, Str("2024-11-05"), Str("x"), Obj),
      ObjParams(Absent, Absent, Str("2024-11-05"), Obj,
                \* {"Name": 5}
                ObjOf(<< << <<78, 97, 109, 101>>, Num(0, 5) >> >>)),
      Reordered(ObjParams(Absent, Absent, Num(0, 1), Str("x"), Obj),
                <<"capabilities", "protocolVersion", "clientInfo", "name",
                  "arguments">>) }

CallParamsSet ==
    { ObjParams(Str("list_indian_stores"), Absent, Absent, Absent, Absent),
      ObjParams(Str("list_indian_stores"), Obj, Absent, Absent, Absent),
      ObjParams(Str("bogus"), Obj, Absent, Absent, Absent),
      ObjParams(Num(0, 1), Absent, Absent, Absent, Absent),
      ObjParams(Str("list_indian_stores"), Str("x"), Absent, Absent, Absent),
      Reordered(ObjParams(Num(0, 1), Str("x"), Absent, Absent, Absent),
                <<"arguments", "name", "protocolVersion", "capabilities",
                  "clientInfo">>) }

EmptyObjParams == ObjParams(Absent, Absent, Absent, Absent, Absent)

ShapeParams == {NoParams, NullParams, ArrayParams, EmptyObjParams}

FewParams == {NoParams, EmptyObjParams}

OtherMethods == {"", "Ping", "Initialize", "resources/list"}

NoBody == Body("malformed", Absent, Absent, Absent, NoParams)

\* bodies that do not decode into a JSONRPCRequest
MalformedBodies ==
    { NoBody, Body("array", Absent, Absent, Absent, NoParams) }
    \cup { Body("object", Num(0, 2), id, Str("ping"), NoParams) : id \in Ids }
    \cup { Body("object", Str("2.0"), id, Num(0, 5), NoParams) : id \in Ids }

HTTPRequest(httpMethod, body) == [body |-> body, httpMethod |-> httpMethod]
Post(body) == HTTPRequest("POST", body)
NoRequest == HTTPRequest("none", NoBody)

(***************************************************************************)
(* Concurrent handlers.  net/http runs each request's handler on its own   *)
(* goroutine; the handlers share the MCPServer and its sync.RWMutex.       *)
(***************************************************************************)
NProcs == 2
Procs == 1..NProcs
NoProc == 0

\* a sync.RWMutex: the goroutines holding it for reading, the one holding
\* it for writing, and those blocked in Lock
RWMutex(readers, writer, waiting) ==
    [readers |-> readers, writer |-> writer, waiting |-> waiting]

FreeMutex == RWMutex({}, NoProc, {})

\* RLock returns when no writer holds the lock and no Lock call is pending
CanRLock(m) == m.writer = NoProc /\ m.waiting = {}

\* Lock returns when nobody holds the lock
CanLock(m) == m.writer = NoProc /\ m.readers = {}

\* the requests the concurrent handlers are given, as decoded
ConcRequests ==
    { Decode(Body("object", Str("2.0"), Num(0, 1), Str(m), NoParams)).req :
        m \in {"initialize", "tools/list", "ping"} }
    \cup { Decode(Body("object", Str("2.0"), Num(0, 1), Str("initialize"),
                      ObjParams(Absent, Absent, Str("2024-11-05"), Obj, Obj))).req,
           Decode(Body("object", Str("2.0"), Num(0, 1), Str("tools/call"),
                      ObjParams(Str("list_indian_stores"), Obj, Absent, Absent,
                                Absent))).req }

ZeroRequest == JSONRPCRequest("", GoNil, "", NoParams)

\* handleRequest of build v
Route(v, init, req) ==
    CASE v = 1 -> handleRequest(init, req)
      [] v = 2 -> handleRequest_v2(init, req)
      [] OTHER -> handleRequest_v3(init, req)

\* handleRequest as it would be if the gate read the flag without RLock
FirstPc_noRLock(v, req) ==
    CASE req.Method = "initialize" ->
           IF v # 3 /\ UnmarshalInitializeParams(req.Params).err # ""
           THEN "return" ELSE "Lock"
      [] req.Method \in {"tools/list", "tools/call"} ->
           IF v = 3 THEN "return" ELSE "read"
      [] OTHER -> "return"

\* the first statement of handleRequest that touches the lock, or "return"
\* when the request is answered without touching it
FirstPc(v, req) ==
    CASE req.Method = "initialize" ->
           IF v # 3 /\ UnmarshalInitializeParams(req.Params).err # ""
           THEN "return" ELSE "Lock"
      [] req.Method \in {"tools/list", "tools/call"} ->
           IF v = 3 THEN "return" ELSE "RLock"
      [] OTHER -> "return"

\* the statement order as it would be if handleInitialize did not unlock
After_noUnlock(at) ==
    CASE at = "RLock"   -> "read"
      [] at = "read"    -> "RUnlock"
      [] at = "RUnlock" -> "return"
      [] at = "Lock"    -> "Locking"
      [] at = "Locking" -> "write"
      [] at = "write"   -> "return"
      [] at = "Unlock"  -> "return"
      [] OTHER          -> "done"

\* the statement after statement `at`: RLock, read, RUnlock in the gate;
\* Lock (Locking while it blocks), write, Unlock in initialize
After(at) ==
    CASE at = "RLock"   -> "read"
      [] at = "read"    -> "RUnlock"
      [] at = "RUnlock" -> "return"
      [] at = "Lock"    -> "Locking"
      [] at = "Locking" -> "write"
      [] at = "write"   -> "Unlock"
      [] at = "Unlock"  -> "return"
      [] OTHER          -> "done"

(***************************************************************************)
(* The state machine.                                                      *)
(***************************************************************************)
Init ==
    /\ variant \in Variants
    /\ initialized = FALSE              \* NewMCPServer: &MCPServer{}
    /\ request = NoRequest
    /\ response = << >>
    /\ written = [body |-> << >>, status |-> 0]
    /\ wasInitialized = FALSE
    /\ nowInitialized = FALSE
    /\ afterHandshake = FALSE
    /\ handshakeDone = FALSE
    /\ inflight = {}
    /\ initResults = {}
    /\ listResults = {}
    /\ callResults = {}
    /\ pc = [p \in Procs |-> "idle"]
    /\ reqOf = [p \in Procs |-> ZeroRequest]
    /\ seen = [p \in Procs |-> FALSE]
    /\ respOf = [p \in Procs |-> ZeroResponse]
    /\ mu = FreeMutex                \* the zero RWMutex is unlocked
    /\ initReturned = FALSE
    /\ afterInit = [p \in Procs |-> FALSE]

\* the /mcp handler of the build this instance runs
Serve(v, init, r) ==
    CASE v = 1 -> handleMCPRequest(init, r)
      [] v = 2 -> handleMCPRequest_v2(init, r)
      [] OTHER -> mcpHandler_v3(init, r)

\* r was decoded as an initialize request and answered with a result
InitializeSucceeded(r, o) ==
    /\ r.httpMethod = "POST"
    /\ Decode(r.body).err = ""
    /\ Decode(r.body).req.Method = "initialize"
    /\ Len(o.response) = 1
    /\ o.response[1].Result.ty # "nil"
    /\ o.response[1].Error.ty = "nil"

\* r was decoded as a tools/list request and answered with a result
ToolsListSucceeded(r, o) ==
    /\ r.httpMethod = "POST"
    /\ Decode(r.body).err = ""
    /\ Decode(r.body).req.Method = "tools/list"
    /\ Len(o.response) = 1
    /\ o.response[1].Result.ty # "nil"

\* r was decoded as a tools/call request naming list_indian_stores and
\* answered with a result
KnownToolCallSucceeded(r, o) ==
    /\ r.httpMethod = "POST"
    /\ Decode(r.body).err = ""
    /\ Decode(r.body).req.Method = "tools/call"
    /\ UnmarshalCallToolParams(r.body.params).err = ""
    /\ UnmarshalCallToolParams(r.body.params).Name = "list_indian_stores"
    /\ Len(o.response) = 1
    /\ o.response[1].Result.ty # "nil"

\* the requests whose exchanges overlap one another freely: for every way
\* through the handlers that touches the flag one, and a ping, under more
\* than one id.  The exchange of any other request overlaps exchanges of
\* these.
OverlapPosts ==
    { Post(Body("object", Str("2.0"), Num(0, 1), Str("initialize"),
                ObjParams(Absent, Absent, Str("2024-11-05"), Obj, Obj))),
      Post(Body("object", Str("2.0"), Num(0, 1), Str("tools/list"), NoParams)),
      Post(Body("object", Str("2.0"), Num(0, 1), Str("tools/call"),
                ObjParams(Str("list_indian_stores"), Obj, Absent, Absent, Absent))),
      Post(Body("object", Str("2.0"), Str("a"), Str("initialize"), NoParams)),
      Post(Body("object", Str("2.0"), Str("a"), Str("tools/list"), NoParams)),
      Post(Body("object", Str("2.0"), Absent, Str("tools/call"),
                ObjParams(Str("bogus"), Obj, Absent, Absent, Absent))),
      Post(Body("object", Str("2.0"), Str("a"), Str("tools/call"), NoParams)),
      Post(Body("object", Str("2.0"), Null, Str("ping"), NoParams)) }

\* an exchange that has been handled: its request, what Serve made of it,
\* the flag before, and whether some initialize had succeeded by then
Exchange(r, o, was, hs) == [r |-> r, o |-> o, was |-> was, hs |-> hs]

\* the handler of r runs on the shared state: it reads or writes the flag
\* under the lock (one point in time) and builds its answer
Handle(r, o) ==
    /\ initialized' = o.initialized
    /\ handshakeDone' = (handshakeDone \/ InitializeSucceeded(r, o))
    /\ initResults' = IF InitializeSucceeded(r, o)
                      THEN initResults \cup {o.response[1].Result}
                      ELSE initResults
    /\ listResults' = IF ToolsListSucceeded(r, o)
                      THEN listResults \cup {o.response[1].Result}
                      ELSE listResults
    /\ callResults' = IF KnownToolCallSucceeded(r, o)
                      THEN callResults \cup {o.response[1].Result}
                      ELSE callResults

\* the answer of a handled exchange goes out
Answer(x) ==
    /\ request' = x.r
    /\ response' = x.o.response
    /\ written' = x.o.written
    /\ wasInitialized' = x.was
    /\ nowInitialized' = x.o.initialized
    /\ afterHandshake' = x.hs

\* no answer is being looked at: the handler that wrote last has returned
Quiet == request = NoRequest

\* the exchanges in flight are all of requests of OverlapPosts
PlainInFlight == \A x \in inflight : x.r \in OverlapPosts

\* one HTTP exchange on /mcp, handled and answered with no other exchange
\* handled in between; others may be in flight meanwhile
Step(r) ==
    /\ Quiet
    /\ r \in OverlapPosts \/ PlainInFlight
    /\ LET o == Serve(variant, initialized, r)
       IN  /\ Handle(r, o)
           /\ Answer(Exchange(r, o, initialized,
                              handshakeDone \/ InitializeSucceeded(r, o)))
    /\ UNCHANGED <<variant, inflight, concVars>>

\* an exchange is handled, and other exchanges run before its answer is
\* written (the handler has released the lock and not yet returned)
Begin(r) ==
    /\ Quiet
    /\ Cardinality(inflight) < MaxInFlight
    /\ IF r \in OverlapPosts THEN PlainInFlight ELSE inflight = {}
    /\ LET o == Serve(variant, initialized, r)
       IN  /\ Handle(r, o)
           /\ inflight' = inflight \cup
                 {Exchange(r, o, initialized,
                           handshakeDone \/ InitializeSucceeded(r, o))}
    /\ UNCHANGED <<variant, request, response, written, wasInitialized,
                   nowInitialized, afterHandshake, concVars>>

\* net/http runs the handler of request r on its own goroutine: its answer
\* is written at once, or after other exchanges
ServeHTTP(r) == Step(r) \/ Begin(r)

\* the answer of an exchange in flight is written
Finish ==
    /\ Quiet
    /\ \E x \in inflight :
          /\ Answer(x)
          /\ inflight' = inflight \ {x}
    /\ UNCHANGED <<variant, initialized, handshakeDone, initResults,
                   listResults, callResults, concVars>>

\* the handler that wrote last returns: its exchange is over, and what was
\* recorded of it is dropped
ExchangeOver ==
    /\ ~Quiet
    /\ request' = NoRequest
    /\ response' = << >>
    /\ written' = [body |-> << >>, status |-> 0]
    /\ wasInitialized' = FALSE
    /\ nowInitialized' = FALSE
    /\ afterHandshake' = FALSE
    /\ UNCHANGED <<variant, initialized, handshakeDone, inflight, initResults,
                   listResults, callResults, concVars>>

Preflight == ServeHTTP(HTTPRequest("OPTIONS", NoBody))

WrongHTTPMethod == \E m \in {"GET", "PUT"} : ServeHTTP(HTTPRequest(m, NoBody))

MalformedPost == \E b \in MalformedBodies : ServeHTTP(Post(b))

NullPost == ServeHTTP(Post(Body("null", Absent, Absent, Absent, NoParams)))

Initialize ==
    \E ep \in (Envelopes \X ShapeParams) \cup (PlainEnvelopes \X InitParamsSet) :
        ServeHTTP(Post(Body("object", ep[1][1], ep[1][2], Str("initialize"), ep[2])))

NotificationsInitialized ==
    \E e \in Envelopes, p \in FewParams :
        ServeHTTP(Post(Body("object", e[1], e[2], Str("notifications/initialized"), p)))

ToolsList ==
    \E e \in Envelopes, p \in FewParams :
        ServeHTTP(Post(Body("object", e[1], e[2], Str("tools/list"), p)))

ToolsCall ==
    \E ep \in (Envelopes \X ShapeParams) \cup (PlainEnvelopes \X CallParamsSet) :
        ServeHTTP(Post(Body("object", ep[1][1], ep[1][2], Str("tools/call"), ep[2])))

Ping ==
    \E e \in Envelopes, p \in FewParams :
        ServeHTTP(Post(Body("object", e[1], e[2], Str("ping"), p)))

UnknownMethod ==
    \E e \in Envelopes, m \in OtherMethods :
        ServeHTTP(Post(Body("object", e[1], e[2], Str(m), NoParams)))

MethodMissing ==
    \E e \in Envelopes :
        ServeHTTP(Post(Body("object", e[1], e[2], Absent, NoParams)))

Next ==
    \/ Preflight
    \/ WrongHTTPMethod
    \/ MalformedPost
    \/ NullPost
    \/ Initialize
    \/ NotificationsInitialized
    \/ ToolsList
    \/ ToolsCall
    \/ Ping
    \/ UnknownMethod
    \/ MethodMissing
    \/ Finish
    \/ ExchangeOver

Spec == Init /\ [][Next]_vars

(***************************************************************************)
(* The concurrent state machine: each goroutine handles one request, one   *)
(* statement on the shared state at a time.                                *)
(***************************************************************************)
\* a request arrives and is routed up to its first statement on the lock
Arrive(p) ==
    /\ pc[p] = "idle"
    /\ \E req \in ConcRequests :
          /\ reqOf' = [reqOf EXCEPT ![p] = req]
          /\ pc' = [pc EXCEPT ![p] = FirstPc(variant, req)]
    /\ afterInit' = [afterInit EXCEPT ![p] = initReturned]
    /\ UNCHANGED <<variant, initialized, seqVars, seen, respOf, mu, initReturned>>

\* s.mu.RLock() returns
RLock(p) ==
    /\ pc[p] = "RLock"
    /\ CanRLock(mu)
    /\ mu' = RWMutex(mu.readers \cup {p}, mu.writer, mu.waiting)
    /\ pc' = [pc EXCEPT ![p] = After("RLock")]
    /\ afterInit' = [afterInit EXCEPT ![p] = initReturned]
    /\ UNCHANGED <<variant, initialized, seqVars, reqOf, seen, respOf, initReturned>>

\* initialized := s.initialized
ReadInitialized(p) ==
    /\ pc[p] = "read"
    /\ seen' = [seen EXCEPT ![p] = initialized]
    /\ pc' = [pc EXCEPT ![p] = After("read")]
    /\ UNCHANGED <<variant, initialized, seqVars, reqOf, respOf, mu,
                   initReturned, afterInit>>

\* s.mu.RUnlock()
RUnlock(p) ==
    /\ pc[p] = "RUnlock"
    /\ mu' = RWMutex(mu.readers \ {p}, mu.writer, mu.waiting)
    /\ pc' = [pc EXCEPT ![p] = After("RUnlock")]
    /\ UNCHANGED <<variant, initialized, seqVars, reqOf, seen, respOf,
                   initReturned, afterInit>>

\* s.mu.Lock() is called: from now on RLock blocks
Lock(p) ==
    /\ pc[p] = "Lock"
    /\ mu' = RWMutex(mu.readers, mu.writer, mu.waiting \cup {p})
    /\ pc' = [pc EXCEPT ![p] = After("Lock")]
    /\ UNCHANGED <<variant, initialized, seqVars, reqOf, seen, respOf,
                   initReturned, afterInit>>

\* s.mu.Lock() returns
LockAcquired(p) ==
    /\ pc[p] = "Locking"
    /\ CanLock(mu)
    /\ mu' = RWMutex(mu.readers, p, mu.waiting \ {p})
    /\ pc' = [pc EXCEPT ![p] = After("Locking")]
    /\ UNCHANGED <<variant, initialized, seqVars, reqOf, seen, respOf,
                   initReturned, afterInit>>

\* s.initialized = true
WriteInitialized(p) ==
    /\ pc[p] = "write"
    /\ initialized' = TRUE
    /\ pc' = [pc EXCEPT ![p] = After("write")]
    /\ UNCHANGED <<variant, seqVars, reqOf, seen, respOf, mu, initReturned,
                   afterInit>>

\* s.mu.Unlock()
Unlock(p) ==
    /\ pc[p] = "Unlock"
    /\ mu' = RWMutex(mu.readers, NoProc, mu.waiting)
    /\ pc' = [pc EXCEPT ![p] = After("Unlock")]
    /\ UNCHANGED <<variant, initialized, seqVars, reqOf, seen, respOf,
                   initReturned, afterInit>>

\* the rest of handleRequest: the response is built and returned
Return(p) ==
    /\ pc[p] = "return"
    /\ LET resp == Route(variant, seen[p], reqOf[p]).resp
       IN  /\ respOf' = [respOf EXCEPT ![p] = resp]
           /\ initReturned' = (initReturned \/ (reqOf[p].Method = "initialize"
                                                 /\ resp.Result.ty # "nil"))
    /\ pc' = [pc EXCEPT ![p] = After("return")]
    /\ UNCHANGED <<variant, initialized, seqVars, reqOf, seen, mu, afterInit>>

\* the statements of goroutine p once its request has arrived
Run(p) ==
    \/ RLock(p)
    \/ ReadInitialized(p)
    \/ RUnlock(p)
    \/ Lock(p)
    \/ LockAcquired(p)
    \/ WriteInitialized(p)
    \/ Unlock(p)
    \/ Return(p)

NextConc == \E p \in Procs : Arrive(p) \/ Run(p)

SpecConc == Init /\ [][NextConc]_vars

\* the Go scheduler runs every goroutine that can run
SpecConcFair == SpecConc /\ \A p \in Procs : WF_vars(Run(p))

(***************************************************************************)
(* What the last exchange looked like.                                     *)
(***************************************************************************)
IsPost == request.httpMethod = "POST"
Decoded == IsPost /\ Decode(request.body).err = ""
Req == Decode(request.body).req
WroteOne == Len(written.body) = 1 /\ written.body[1].kind = "json"
Env == written.body[1]
HasResult(e) == e.result.ty # "absent"
HasError(e) == e.error.ty # "absent"
RoutedMethods == {"initialize", "notifications/initialized", "tools/list",
                  "tools/call", "ping"}
ToolTable == {"list_indian_stores"}

TypeOK ==
    /\ variant \in Variants
    /\ initialized \in BOOLEAN
    /\ wasInitialized \in BOOLEAN
    /\ nowInitialized \in BOOLEAN
    /\ afterHandshake \in BOOLEAN
    /\ handshakeDone \in BOOLEAN
    /\ Cardinality(inflight) <= MaxInFlight
    /\ Len(response) <= 1
    /\ Len(written.body) <= 1


(***************************************************************************)
(* C1.  Every tools/list and tools/call handled before any successful      *)
(* initialize is answered with -32002, and none handled after one is.      *)
(* Build 3 has no gate: it answers tools/list with the tool list on a      *)
(* fresh server.                                                           *)
(***************************************************************************)
C1_GatedUntilHandshake ==
    (Decoded /\ Req.Method \in {"tools/list", "tools/call"}) =>
        /\ WroteOne
        /\ ~afterHandshake => (HasError(Env) /\ Env.error.code = NotInitialized)
        /\ afterHandshake => ~(HasError(Env) /\ Env.error.code = NotInitialized)

(***************************************************************************)
(* C2.  A notifications/initialized request never makes the server write   *)
(* anything to the transport.  Builds 1 and 2 encode the zero              *)
(* JSONRPCResponse, which is the object {"jsonrpc":""}; build 3 answers    *)
(* with a method-not-found error.                                          *)
(***************************************************************************)
C2_NotificationWritesNothing ==
    (Decoded /\ Req.Method = "notifications/initialized") => written.body = << >>

(***************************************************************************)
(* C3.  For every request that decodes and is answered (any method but     *)
(* notifications/initialized), the identifier on the wire is the           *)
(* identifier of the request: same kind (absent, null, string, number)     *)
(* and same value.  "id": null comes back with no id member, and an        *)
(* integer beyond 2^53 comes back rounded.                                 *)
(***************************************************************************)
C3_IdentifierEchoed ==
    (Decoded /\ Req.Method # "notifications/initialized") =>
        (WroteOne /\ Env.id = request.body.id)

(***************************************************************************)
(* C4.  A body that fails to decode is answered with exactly one envelope, *)
(* whose error code is -32700 and whose identifier is null.  The envelope  *)
(* written has no id member at all (ID: nil under omitempty).              *)
(***************************************************************************)
C4_ParseErrorNullId ==
    (IsPost /\ ~Decoded) =>
        /\ WroteOne
        /\ HasError(Env)
        /\ Env.error.code = ParseError
        /\ Env.id = Null

(***************************************************************************)
(* C5.  Every envelope written for a POST other than                       *)
(* notifications/initialized holds exactly one of result and error.        *)
(***************************************************************************)
C5_ExactlyOneOfResultAndError ==
    (IsPost /\ ~(Decoded /\ Req.Method = "notifications/initialized")) =>
        /\ WroteOne
        /\ HasResult(Env) # HasError(Env)
        /\ (response # << >>) =>
               ((response[1].Result.ty = "nil") # (response[1].Error.ty = "nil"))

\* an error envelope and nothing else, from a gated method on a fresh server
C5_Witness ==
    /\ Decoded
    /\ Req.Method = "tools/call"
    /\ ~wasInitialized
    /\ WroteOne
    /\ HasError(Env)
    /\ ~HasResult(Env)

(***************************************************************************)
(* C6.  initialize with parseable params always succeeds and leaves the    *)
(* session ready; once a handshake succeeded the session stays ready; and  *)
(* all successful initialize results of one server are the same, with      *)
(* protocol version "2024-11-05" and listChanged false, whatever the       *)
(* client sent.                                                            *)
(***************************************************************************)
C6_InitializeIdempotent ==
    /\ afterHandshake => nowInitialized
    /\ Cardinality(initResults) <= 1
    /\ \A r \in initResults :
          /\ r.ty = "InitializeResult"
          /\ r.ProtocolVersion = "2024-11-05"
          /\ r.Capabilities.Tools.ListChanged = FALSE
    /\ (Decoded /\ Req.Method = "initialize"
          /\ UnmarshalInitializeParams(Req.Params).err = "") =>
          /\ nowInitialized
          /\ response[1].Result \in initResults
          /\ WroteOne
          /\ HasResult(Env)
          /\ ~HasError(Env)
          /\ Env.result.protocolVersion = "2024-11-05"
          /\ Env.result.capabilities.tools.listChanged # "true"

\* a repeated initialize that asks for another protocol version
C6_Witness ==
    /\ Decoded
    /\ Req.Method = "initialize"
    /\ wasInitialized
    /\ afterHandshake
    /\ request.body.params.protocolVersion = Str("2025-03-26")
    /\ UnmarshalInitializeParams(Req.Params).err = ""
    /\ Cardinality(initResults) = 1

(***************************************************************************)
(* C7.  initialize with params that do not parse into InitializeParams is  *)
(* answered with -32602 and leaves the session flag as it was.  Build 3    *)
(* never parses the params: it answers with a result and sets the flag.    *)
(***************************************************************************)
C7_BadInitializeParams ==
    (Decoded /\ Req.Method = "initialize"
       /\ UnmarshalInitializeParams(Req.Params).err # "") =>
        /\ WroteOne
        /\ HasError(Env)
        /\ Env.error.code = InvalidParams
        /\ nowInitialized = wasInitialized

(***************************************************************************)
(* C8.  After a successful initialize, tools/call naming a tool that is    *)
(* not in the tool table is answered with -32601 and the name as data,     *)
(* and the session flag is unchanged.  Builds 2 and 3 never look at the    *)
(* name and answer with the store list.                                    *)
(***************************************************************************)
C8_UnknownTool ==
    (Decoded /\ Req.Method = "tools/call" /\ afterHandshake
       /\ UnmarshalCallToolParams(Req.Params).err = ""
       /\ UnmarshalCallToolParams(Req.Params).Name \notin ToolTable) =>
        /\ WroteOne
        /\ HasError(Env)
        /\ Env.error.code = MethodNotFound
        /\ Env.error.data = Str(UnmarshalCallToolParams(Req.Params).Name)
        /\ nowInitialized = wasInitialized

(***************************************************************************)
(* C9.  ping is always answered with a result that is the empty object     *)
(* and no error, ready or not, and leaves the session flag as it was.      *)
(***************************************************************************)
C9_PingAlwaysSucceeds ==
    (Decoded /\ Req.Method = "ping") =>
        /\ written.status = 200
        /\ WroteOne
        /\ Env.result = [members |-> {}, ty |-> "object"]
        /\ ~HasError(Env)
        /\ nowInitialized = wasInitialized

\* a ping answered before any handshake
C9_Witness ==
    /\ Decoded
    /\ Req.Method = "ping"
    /\ ~nowInitialized
    /\ ~afterHandshake
    /\ WroteOne
    /\ HasResult(Env)

(***************************************************************************)
(* C10.  A request whose method is not one of the five routed names is     *)
(* answered with -32601 and the method name as data, ready or not.         *)
(* Build 3's sendError has no data parameter: its answer carries none.     *)
(***************************************************************************)
C10_MethodNotFound ==
    (Decoded /\ Req.Method \notin RoutedMethods) =>
        /\ WroteOne
        /\ HasError(Env)
        /\ ~HasResult(Env)
        /\ Env.error.code = MethodNotFound
        /\ Env.error.data = Str(Req.Method)


(***************************************************************************)
(* Observation helpers of the second group of claims.                      *)
(***************************************************************************)
\* the code the envelope written for the last exchange carries
WroteError(code) == WroteOne /\ HasError(Env) /\ Env.error.code = code
CallParams == UnmarshalCallToolParams(Req.Params)
InitParams == UnmarshalInitializeParams(Req.Params)
ErrorCodes == {ParseError, MethodNotFound, InvalidParams, NotInitialized}

(***************************************************************************)
(* C13.  After a successful initialize, a tools/call whose params do not   *)
(* parse as call parameters (absent params included) is answered with      *)
(* -32602 and never with a tool result.  Builds 2 and 3 never parse the    *)
(* params of tools/call and answer with the store list.                    *)
(***************************************************************************)
C13_BadCallParams ==
    (Decoded /\ Req.Method = "tools/call" /\ afterHandshake
             /\ CallParams.err # "") =>
        /\ WroteError(InvalidParams)
        /\ ~HasResult(Env)

(***************************************************************************)
(* C14.  After a successful initialize every tools/list succeeds whatever  *)
(* its params, and the result is always the same sequence of exactly one   *)
(* tool descriptor, named list_indian_stores.                              *)
(***************************************************************************)
C14_ToolsListFixed ==
    /\ (Decoded /\ Req.Method = "tools/list" /\ afterHandshake) =>
          /\ WroteOne
          /\ ~HasError(Env)
          /\ Env.result.ty = "ToolsListResult"
          /\ Len(Env.result.tools) = 1
          /\ Env.result.tools[1].name = "list_indian_stores"
          /\ response[1].Result \in listResults
    /\ Cardinality(listResults) <= 1

C14_Witness ==
    /\ Decoded /\ Req.Method = "tools/list" /\ afterHandshake
    /\ Req.Params.t = "object"
    /\ WroteOne /\ HasResult(Env)
    /\ Cardinality(listResults) = 1

(***************************************************************************)
(* C15.  A tools/call handled while the session is not ready is answered   *)
(* with -32002 whatever its params and tool name, never with -32602 or     *)
(* -32601.  Build 3 has no gate.                                           *)
(***************************************************************************)
C15_GateBeforeParams ==
    (Decoded /\ Req.Method = "tools/call" /\ ~wasInitialized) =>
        WroteError(NotInitialized)

(***************************************************************************)
(* C16.  The session flag is false when the server is created and, once    *)
(* true, stays true: no exchange takes it from true to false.              *)
(***************************************************************************)
C16_FlagMonotonic ==
    /\ ~handshakeDone => ~initialized
    /\ wasInitialized => nowInitialized
    /\ nowInitialized => initialized
    /\ handshakeDone => initialized
    /\ \A x \in inflight : /\ x.was => x.o.initialized
                           /\ x.o.initialized => initialized

C16_Witness ==
    /\ wasInitialized /\ nowInitialized
    /\ Decoded /\ Req.Method = "initialize"
    /\ WroteError(InvalidParams)

(***************************************************************************)
(* C17.  Only an initialize answered with a result changes the session     *)
(* flag; every other exchange leaves it as it was, and                     *)
(* notifications/initialized on a session that is not ready leaves it not  *)
(* ready.                                                                  *)
(***************************************************************************)
C17_OnlyInitializeWrites ==
    /\ (nowInitialized # wasInitialized) =>
          /\ Decoded /\ Req.Method = "initialize"
          /\ WroteOne /\ HasResult(Env) /\ ~HasError(Env)
    /\ (Decoded /\ Req.Method = "notifications/initialized" /\ ~wasInitialized)
          => ~nowInitialized

C17_Witness ==
    /\ Decoded /\ Req.Method = "notifications/initialized"
    /\ ~wasInitialized /\ ~nowInitialized /\ ~afterHandshake


(***************************************************************************)
(* C18.  Every error code written is one of -32700, -32601, -32602 and     *)
(* -32002, and each is written only for its trigger: -32700 for a body     *)
(* that does not decode, -32002 for a gated method on a session that is    *)
(* not ready, -32602 for params of initialize or tools/call that do not    *)
(* parse, -32601 for a method outside the five routed ones or a tool name  *)
(* outside the tool table.  Build 3 answers notifications/initialized, a   *)
(* routed method, with -32601.                                             *)
(***************************************************************************)
C18_ErrorTaxonomy ==
    (WroteOne /\ HasError(Env)) =>
        /\ Env.error.code \in ErrorCodes
        /\ (Env.error.code = ParseError) => (IsPost /\ ~Decoded)
        /\ (Env.error.code = NotInitialized) =>
              /\ Decoded /\ Req.Method \in {"tools/list", "tools/call"}
              /\ ~wasInitialized
        /\ (Env.error.code = InvalidParams) =>
              /\ Decoded
              /\ \/ Req.Method = "initialize" /\ InitParams.err # ""
                 \/ Req.Method = "tools/call" /\ CallParams.err # ""
        /\ (Env.error.code = MethodNotFound) =>
              /\ Decoded
              /\ \/ Req.Method \notin RoutedMethods
                 \/ /\ Req.Method = "tools/call"
                    /\ CallParams.err = ""
                    /\ CallParams.Name \notin ToolTable

(***************************************************************************)
(* C19.  After a successful initialize, a tools/call that names            *)
(* list_indian_stores succeeds whatever its arguments, and always with the *)
(* same result: exactly one content block, of type text, holding the store *)
(* list, and no error flag.                                                *)
(***************************************************************************)
C19_KnownToolPure ==
    /\ (Decoded /\ Req.Method = "tools/call" /\ afterHandshake
                /\ CallParams.err = "" /\ CallParams.Name \in ToolTable) =>
          /\ WroteOne
          /\ ~HasError(Env)
          /\ Env.result.ty = "CallToolResult"
          /\ Len(Env.result.content) = 1
          /\ Env.result.content[1].type = "text"
          /\ Len(Env.result.content[1].text) > 0
          /\ Env.result.isError = "omitted"
          /\ response[1].Result \in callResults
    /\ Cardinality(callResults) <= 1

C19_Witness ==
    /\ Decoded /\ Req.Method = "tools/call" /\ afterHandshake
    /\ CallParams.err = "" /\ CallParams.Name \in ToolTable
    /\ Req.Params.arguments = Obj
    /\ WroteOne /\ HasResult(Env)
    /\ Cardinality(callResults) = 1

(***************************************************************************)
(* C20.  A structurally well-formed request, a JSON object whose jsonrpc   *)
(* and method members are strings where they are present and not null, is  *)
(* never answered with the decode error -32700, whether its id is missing  *)
(* or null, its params are missing, or its jsonrpc member is missing, null *)
(* or a string other than "2.0"; it is dispatched by its method, and what  *)
(* is written is what is written for the same request with jsonrpc "2.0"   *)
(* in the same session state.  (A body whose jsonrpc or method member is   *)
(* of another JSON type is one of MalformedBodies: it does not decode into *)
(* the envelope and is answered as C4 describes.)                          *)
(***************************************************************************)
\* the last request with its jsonrpc member replaced by "2.0"
WithVersion20 == Post([request.body EXCEPT !.jsonrpc = Str("2.0")])

VersionIgnored ==
    /\ WroteOne
    /\ ~WroteError(ParseError)
    /\ written = Serve(variant, wasInitialized, WithVersion20).written

C20_VersionStringIgnored ==
    (IsPost /\ request.body.t = "object"
            /\ request.body.jsonrpc.t \in {"absent", "null", "str"}
            /\ request.body.method.t \in {"absent", "null", "str"}) =>
        VersionIgnored

C20_Witness ==
    /\ IsPost /\ request.body.t = "object"
    /\ request.body.jsonrpc = Str("1.0")
    /\ request.body.id = Absent
    /\ request.body.params = NoParams
    /\ Req.Method = "initialize"
    /\ WroteError(InvalidParams)


(***************************************************************************)
(* C11.  Every read of the session flag happens while the reading handler  *)
(* holds the lock shared, and every write while the writing handler holds  *)
(* it exclusively, with nobody else holding it.  Once some initialize has  *)
(* returned its result, every tools/list and tools/call whose gate check   *)
(* starts afterwards (the request arrives, or its RLock returns, after     *)
(* that) sees the session ready and is not answered with -32002.           *)
(***************************************************************************)
GatedRequest(p) == reqOf[p].Method \in {"tools/list", "tools/call"}

C11_FlagUnderLock ==
    \A p \in Procs :
        /\ (pc[p] = "read") => (p \in mu.readers /\ mu.writer = NoProc)
        /\ (pc[p] = "write") => (mu.writer = p /\ mu.readers = {})
        /\ (pc[p] \in {"RUnlock", "return", "done"} /\ GatedRequest(p)
                 /\ afterInit[p] /\ variant # 3) => seen[p]
        /\ (pc[p] = "done" /\ GatedRequest(p) /\ afterInit[p]) =>
              /\ respOf[p].Result.ty # "nil"
              /\ respOf[p].Error.ty = "nil"

C11_Witness ==
    \E p, q \in Procs :
        /\ variant = 1
        /\ pc[p] = "done" /\ reqOf[p].Method = "initialize"
        /\ respOf[p].Result.ty = "InitializeResult"
        /\ pc[q] = "done" /\ GatedRequest(q) /\ afterInit[q]
        /\ respOf[q].Result.ty # "nil"

(***************************************************************************)
(* C12.  Under any interleaving every request that has arrived is          *)
(* eventually answered, and a handler that has reached its return holds    *)
(* no lock and waits for none: every Lock and RLock is followed by its     *)
(* unlock on every path.                                                   *)
(***************************************************************************)
HoldsNothing(p) ==
    /\ p \notin mu.readers
    /\ mu.writer # p
    /\ p \notin mu.waiting

C12_EveryRequestCompletes ==
    /\ \A p \in Procs : (pc[p] # "idle") ~> (pc[p] = "done")
    /\ [](\A p \in Procs : (pc[p] \in {"idle", "return", "done"}) => HoldsNothing(p))

\* two initialize requests have contended for the lock and both are done
C12_Witness ==
    /\ \A p \in Procs : pc[p] = "done" /\ reqOf[p].Method = "initialize"
                                      /\ respOf[p].Result.ty # "nil"
    /\ mu = FreeMutex
    /\ variant = 1


(***************************************************************************)
(* C21.  A request object without an id member whose method is not         *)
(* notifications/initialized (initialize, tools/list, tools/call, ping or  *)
(* an unknown method) is answered with one envelope holding a result or an *)
(* error, the same envelope, but for its id member, as the one written for *)
(* the same request with an id; an initialize without id whose params      *)
(* parse is answered with a result and leaves the session ready.           *)
(***************************************************************************)
\* the last request with an id member added
WithId == Post([request.body EXCEPT !.id = Str("a")])

NoIdRequest ==
    /\ Decoded
    /\ request.body.t = "object"
    /\ request.body.id = Absent

C21_NoIdStillAnswered ==
    /\ (NoIdRequest /\ Req.Method # "notifications/initialized") =>
          /\ WroteOne
          /\ HasResult(Env) # HasError(Env)
          /\ LET w == Serve(variant, wasInitialized, WithId).written
             IN  /\ Len(w.body) = 1
                 /\ Env = [w.body[1] EXCEPT !.id = Absent]
    /\ (NoIdRequest /\ Req.Method = "initialize" /\ InitParams.err = "") =>
          /\ WroteOne /\ HasResult(Env) /\ ~HasError(Env)
          /\ nowInitialized

C21_Witness ==
    /\ NoIdRequest /\ Req.Method = "initialize" /\ InitParams.err = ""
    /\ ~wasInitialized /\ nowInitialized
    /\ WroteOne /\ HasResult(Env)
    /\ variant = 1


(***************************************************************************)
(* C22.  A tools/list or tools/call that runs concurrently with the first  *)
(* successful initialize ends in one of two ways and no other: with the    *)
(* -32002 error when its read of the flag came before the write (so always *)
(* when it is done while the flag is still unset), with its normal result  *)
(* when the read came after the write.  A request that has read the flag   *)
(* as set is never answered with -32002, whatever runs next to it.         *)
(* Build 3 has no gate: a gated request that is done before any write is   *)
(* answered with its result.                                               *)
(***************************************************************************)
NotReadyOutcome(p) ==
    /\ respOf[p].Result.ty = "nil"
    /\ respOf[p].Error.ty = "RPCError"
    /\ respOf[p].Error.Code = NotInitialized

ResultOutcome(p) ==
    /\ respOf[p].Result.ty # "nil"
    /\ respOf[p].Error.ty = "nil"

C22_GateRace ==
    \A p \in Procs :
        (pc[p] = "done" /\ GatedRequest(p)) =>
            /\ NotReadyOutcome(p) \/ ResultOutcome(p)
            /\ ~initialized => NotReadyOutcome(p)
            /\ seen[p] => ResultOutcome(p)
            /\ NotReadyOutcome(p) => ~seen[p]
            /\ ResultOutcome(p) => seen[p]

\* an initialize whose params parse is between its Lock call and its return
InitializeInFlight(q) ==
    /\ reqOf[q].Method = "initialize"
    /\ UnmarshalInitializeParams(reqOf[q].Params).err = ""
    /\ pc[q] \in {"Lock", "Locking", "write", "Unlock", "return"}

\* next to the first initialize in flight, a gated request has read the
\* flag as unset and has not returned yet
C22_NotReadyReachable ==
    \E p, q \in Procs :
        /\ ~initReturned /\ InitializeInFlight(q)
        /\ GatedRequest(p) /\ pc[p] \in {"RUnlock", "return"} /\ ~seen[p]
        /\ variant # 3

\* next to the first initialize in flight, a gated request has read the
\* flag as set and has not returned yet
C22_ResultReachable ==
    \E p, q \in Procs :
        /\ ~initReturned /\ InitializeInFlight(q)
        /\ GatedRequest(p) /\ pc[p] \in {"RUnlock", "return"} /\ seen[p]
        /\ variant # 3


\* build 1: a tools/list that read the flag as unset is answered with -32002
\* after an initialize that ran in between was answered and set the flag
StaleGateAnswer ==
    /\ variant = 1
    /\ Decoded /\ Req.Method = "tools/list"
    /\ WroteError(NotInitialized)
    /\ initialized /\ handshakeDone /\ ~afterHandshake

=============================================================================
